---------------------------- MODULE Spec2Model ----------------------------
(***************************************************************************)
(* A model of the disk seeking simulation (jleskey/csc3044-disk-sim).      *)
(*                                                                         *)
(* Two versions of the program are modelled side by side, selected by the  *)
(* variable `version`:                                                     *)
(*   "main"     src/src/main.c         (chunked, per-policy start/tally)   *)
(*   "part_000" src/unnamed/part_000   (earlier version, one pass over the *)
(*                                      whole list, one initialPosition)   *)
(*                                                                         *)
(* C arrays are 0-based; lists are modelled as TLA+ sequences, so the C    *)
(* element list[k] is list[k+1] here.  Loop counters keep their C values.  *)
(***************************************************************************)
EXTENDS Integers, Sequences, FiniteSets, TLC

(***************************************************************************)
(* Bounds of the model.                                                    *)
(***************************************************************************)
\* longest request list drawn by Init
MaxLen == 3
\* requests are drawn from 0..MaxTrack (a prefix of the track range)
MaxTrack == 4
\* longest input stream drawn by InitInput
MaxInput == 3
\* longest request list drawn by InitChunks (the buffer holds 100 requests
\* and a chunk 20, so lists beyond 120 requests fill the buffer twice)
MaxRequests == 125

(***************************************************************************)
(* Program constants.                                                      *)
(***************************************************************************)
D_SIZE_MIN == 0
D_SIZE_MAX == 65535
D_POS_INIT == 32767
INT_MAX == 2147483647
INT_MIN == -INT_MAX - 1
\* extractSeeks: the first capacity of the list
D_DYNAMIC_BASE_SIZE == 10
\* processInChunks: int buffer[100]
BufferSize == 100
\* processInChunks: min(20, remaining)
ChunkMax == 20

VARIABLES
    version,            \* which source file is running
    stream,             \* the input stream handed to extractSeeks
    diagnostics,        \* what extractSeeks wrote to stderr
    envPosInit,         \* the environment setting D_POS_INIT
    seeks,              \* the caller's SeekList (list and length)
    pc,                 \* position in the program
    \* globals of main.c
    currentStart, firstComeStart, firstComeTally,
    shortestStart, shortestTally, elevatorStart, elevatorTally,
    \* global of part_000
    initialPosition,
    \* locals of processInChunks
    buffer, remaining, seekIndex, chunkSize, shiftIndex,
    refillIndex,        \* the i of the refill loop of processInChunks
    \* locals of shortestSeekFirst / elevatorAlgorithm
    i, bestIndex, seekPosition, index, run, up,
    \* locals of part_000's elevatorAlgorithm / shortestSeekFirst
    currentPosition, n,
    \* what has been printed
    reported,           \* printRunStats, per policy
    overview,           \* printOverview (last call)
    \* history variables: the list handed to the schedulers, in arrival
    \* order, and the number of calls of processChunk so far
    arrival, calls

globals == <<currentStart, firstComeStart, firstComeTally, shortestStart,
             shortestTally, elevatorStart, elevatorTally, initialPosition>>
chunkVars == <<buffer, remaining, seekIndex, chunkSize, shiftIndex,
               refillIndex>>
locals == <<i, bestIndex, seekPosition, index, run, up, currentPosition, n>>
output == <<reported, overview>>
ingest == <<stream, diagnostics>>
history == <<arrival, calls>>
vars == <<version, ingest, envPosInit, seeks, pc, globals, chunkVars, locals,
          output, history>>

(***************************************************************************)
(* Small helpers.                                                          *)
(***************************************************************************)
abs(x) == IF x < 0 THEN -x ELSE x

min(a, b) == IF a < b THEN a ELSE b

\* an int that was declared and not assigned
Uninit == "uninit"

(***************************************************************************)
(* The environment setting and atoi.  A setting is a sequence of           *)
(* characters; atoi reads an optional sign and the leading digits and      *)
(* yields 0 when there are none.                                           *)
(***************************************************************************)
DigitChars == <<"0", "1", "2", "3", "4", "5", "6", "7", "8", "9">>

IsDigit(c) == \E d \in 1..10 : DigitChars[d] = c

DigitValue(c) == (CHOOSE d \in 1..10 : DigitChars[d] = c) - 1

RECURSIVE atoiDigits(_, _, _)
atoiDigits(text, k, acc) ==
    IF k > Len(text) \/ ~IsDigit(text[k]) THEN acc
    ELSE atoiDigits(text, k + 1, 10 * acc + DigitValue(text[k]))

atoi(text) ==
    IF Len(text) > 0 /\ text[1] = "-" THEN -atoiDigits(text, 2, 0)
    ELSE IF Len(text) > 0 /\ text[1] = "+" THEN atoiDigits(text, 2, 0)
    ELSE atoiDigits(text, 1, 0)

\* getenv("D_POS_INIT"): NULL when the variable is not set
EnvUnset == [set |-> FALSE, text |-> <<>>]

EnvSettings ==
    {EnvUnset, [set |-> TRUE, text |-> <<"x">>]}
      \cup {[set |-> TRUE, text |-> <<DigitChars[t + 1]>>] : t \in 0..MaxTrack}

\* the start position process() installs
ConfiguredStart(env) == IF env.set THEN atoi(env.text) ELSE D_POS_INIT

(***************************************************************************)
(* Request lists.                                                          *)
(***************************************************************************)
Tracks == 0..MaxTrack

RECURSIVE ListsOfLen(_)
ListsOfLen(len) ==
    IF len = 0 THEN {<<>>}
    ELSE {Append(s, t) : s \in ListsOfLen(len - 1), t \in Tracks}

SeekLists == UNION {ListsOfLen(len) : len \in 0..MaxLen}

\* Lists long enough for several chunks.  Scattered(len) holds a different
\* value at any two places less than 83 apart, so a request that is skipped,
\* repeated or moved shows; Repeating(len) holds values more than once.
Scattered(len) == [k \in 1..len |-> (7 * (k - 1)) % 83]

Repeating(len) == [k \in 1..len |-> ((k - 1) * (k - 1)) % 23]

\* more requests than the buffer and a chunk hold together
OverfullList == Scattered(BufferSize + ChunkMax + 1)

LongLists ==
    {Scattered(len) : len \in 0..MaxRequests}
      \cup {Repeating(len) : len \in 0..MaxRequests}

\* the requests of the worked example, which is run from the start 53
ExampleRequests == <<98, 183, 37, 122, 14, 124, 65, 67>>

ExampleStart == [set |-> TRUE, text |-> <<"5", "3">>]


(***************************************************************************)
(* Statistics: printOverview and printRunStats.                            *)
(*                                                                         *)
(* A double is kept exact, as a fraction num/den, or is NaN (the result of *)
(* 0 / 0.0 under IEEE 754 arithmetic).  The standard deviation is kept as  *)
(* the fraction under the square root.                                     *)
(***************************************************************************)
NaN == [nan |-> TRUE, num |-> 0, den |-> 1]

Frac(a, b) == [nan |-> FALSE, num |-> a, den |-> b]

\* x / (double) d
DivDouble(x, d) == IF d = 0 /\ x = 0 THEN NaN ELSE Frac(x, d)

\* the loops of printOverview run over the whole list at the conclusion;
\* they are evaluated a chunk's length of iterations at a time (SumBlocks,
\* SquareBlocks), each part being the loop from k up to `limit`
RECURSIVE SumList(_, _, _)
SumList(list, k, limit) ==
    IF k >= limit THEN 0 ELSE list[k + 1] + SumList(list, k + 1, limit)

RECURSIVE SumBlocks(_, _)
SumBlocks(list, k) ==
    IF k >= Len(list) THEN 0
    ELSE LET stop == min(k + ChunkMax, Len(list))
         IN  SumList(list, k, stop) + SumBlocks(list, stop)

\* main.c: sumOfDeviations is a double; the sum of (x - mean)^2 with
\* mean = sum/len is  (sum of (len*x - sum)^2) / len^2
RECURSIVE SumSquares(_, _, _, _)
SumSquares(list, sum, k, limit) ==
    IF k >= limit THEN 0
    ELSE (Len(list) * list[k + 1] - sum) * (Len(list) * list[k + 1] - sum)
           + SumSquares(list, sum, k + 1, limit)

RECURSIVE SquareBlocks(_, _, _)
SquareBlocks(list, sum, k) ==
    IF k >= Len(list) THEN 0
    ELSE LET stop == min(k + ChunkMax, Len(list))
         IN  SumSquares(list, sum, k, stop) + SquareBlocks(list, sum, stop)

\* part_000: sumOfDeviations is an int, each addition truncates
RECURSIVE SumSquaresInt(_, _, _)
SumSquaresInt(list, sum, k) ==
    IF k >= Len(list) THEN 0
    ELSE ((Len(list) * list[k + 1] - sum) * (Len(list) * list[k + 1] - sum))
             \div (Len(list) * Len(list))
           + SumSquaresInt(list, sum, k + 1)

Overview(list) ==
    LET len == Len(list)
        sum == SumBlocks(list, 0)
        mean == DivDouble(sum, len)
        variance == IF len = 0 THEN NaN
                    ELSE Frac(SquareBlocks(list, sum, 0), len * len * len)
    IN  [count |-> len, mean |-> mean, stddev |-> variance]

Overview_p0(list) ==
    LET len == Len(list)
        sum == SumBlocks(list, 0)
        mean == DivDouble(sum, len)
        variance == DivDouble(SumSquaresInt(list, sum, 0), len)
    IN  [count |-> len, mean |-> mean, stddev |-> variance]

\* printRunStats, the loop: distance accumulated from seekPosition on
\* RunStatsLoop without "seekPosition = seeks.list[i]"
RECURSIVE RunStatsLoop_fixedOrigin(_, _, _, _)
RunStatsLoop_fixedOrigin(list, k, distance, position) ==
    IF k >= Len(list) THEN distance
    ELSE RunStatsLoop_fixedOrigin(list, k + 1,
                                  distance + abs(list[k + 1] - position),
                                  position)

RECURSIVE RunStatsLoop(_, _, _, _)
RunStatsLoop(list, k, distance, position) ==
    IF k >= Len(list) THEN distance
    ELSE RunStatsLoop(list, k + 1, distance + abs(list[k + 1] - position),
                      list[k + 1])

\* RunStats measuring from the first request instead of currentStart
RunStats_fromFirst(list, start) ==
    [printed |-> TRUE, start |-> start,
     distance |-> IF Len(list) = 0 THEN 0
                  ELSE RunStatsLoop(list, 0, 0, list[1]),
     list |-> list]

RunStats(list, start) ==
    [printed |-> TRUE, start |-> start,
     distance |-> RunStatsLoop(list, 0, 0, start), list |-> list]

NoStats == [printed |-> FALSE, start |-> 0, distance |-> 0, list |-> <<>>]

(***************************************************************************)
(* firstComeFirstServed and the tally loop at the end of elevatorAlgorithm:*)
(* count the requests that differ from the position before them.           *)
(***************************************************************************)
RECURSIVE TallyLoop(_, _, _, _)
TallyLoop(list, k, tally, lastPosition) ==
    IF k >= Len(list) THEN [tally |-> tally, lastPosition |-> lastPosition]
    ELSE TallyLoop(list, k + 1,
                   IF list[k + 1] # lastPosition THEN tally + 1 ELSE tally,
                   list[k + 1])

(***************************************************************************)
(* shortestSeekFirst: the scan of the unplaced suffix and the swap.        *)
(***************************************************************************)
\* Closer with <= for <: a later request at the same distance wins
Closer_orEqual(distance, smallestDistance) == distance <= smallestDistance

Closer(distance, smallestDistance) == distance < smallestDistance

\* the scan with the signed difference in place of the distance (no abs)
RECURSIVE SstfScan_signed(_, _, _, _)
SstfScan_signed(list, position, j, best) ==
    IF j >= Len(list) THEN best
    ELSE LET distance == list[j + 1] - position
         IN  IF Closer(distance, best.smallestDistance)
             THEN SstfScan_signed(list, position, j + 1,
                                  [bestIndex |-> j,
                                   smallestDistance |-> distance,
                                   nextPosition |-> list[j + 1]])
             ELSE SstfScan_signed(list, position, j + 1, best)

RECURSIVE SstfScan(_, _, _, _)
SstfScan(list, position, j, best) ==
    IF j >= Len(list) THEN best
    ELSE LET distance == abs(list[j + 1] - position)
         IN  IF Closer(distance, best.smallestDistance)
             THEN SstfScan(list, position, j + 1,
                           [bestIndex |-> j, smallestDistance |-> distance,
                            nextPosition |-> list[j + 1]])
             ELSE SstfScan(list, position, j + 1, best)

\* SstfSelect with the scan started one slot late (j = i + 1)
SstfSelect_skipFirst(list, from, position) ==
    SstfScan(list, position, from + 1,
             [bestIndex |-> -1, smallestDistance |-> INT_MAX,
              nextPosition |-> Uninit])

SstfSelect(list, from, position) ==
    SstfScan(list, position, from,
             [bestIndex |-> -1, smallestDistance |-> INT_MAX,
              nextPosition |-> Uninit])

\* Swap with the write-back of the displaced request left out
Swap_noWriteBack(list, a, b) == [list EXCEPT ![a + 1] = list[b + 1]]

Swap(list, a, b) ==
    [list EXCEPT ![a + 1] = list[b + 1], ![b + 1] = list[a + 1]]

\* one iteration of the outer loop of shortestSeekFirst (main.c)
\* an iteration that counts every request it places
SstfStep_countsAll(list, from, position, tally) ==
    LET best == SstfSelect(list, from, position)
    IN  [list |-> IF best.bestIndex # from
                  THEN Swap(list, from, best.bestIndex) ELSE list,
         bestIndex |-> best.bestIndex,
         seekPosition |-> best.nextPosition,
         tally |-> tally + 1]

SstfStep(list, from, position, tally) ==
    LET best == SstfSelect(list, from, position)
    IN  IF best.bestIndex = -1
        THEN [list |-> list, bestIndex |-> -1, seekPosition |-> position,
              tally |-> tally]
        ELSE [list |-> IF best.bestIndex # from
                       THEN Swap(list, from, best.bestIndex) ELSE list,
              bestIndex |-> best.bestIndex,
              seekPosition |-> best.nextPosition,
              tally |-> IF position # best.nextPosition
                        THEN tally + 1 ELSE tally]

(***************************************************************************)
(* elevatorAlgorithm of main.c: the scan over evalIndex and the swap.      *)
(***************************************************************************)
\* InRange without the upper bound: the range is not narrowed while going up
InRange_lowerOnly(lower, evalPosition, upper) == lower < evalPosition

\* a range test that admits a request at the head position
InRange_orEqual(lower, evalPosition, upper) ==
    lower <= evalPosition /\ evalPosition < upper

InRange(lower, evalPosition, upper) ==
    lower < evalPosition /\ evalPosition < upper

RECURSIVE ElevScan(_, _, _, _)
ElevScan(list, goingUp, evalIndex, st) ==
    IF evalIndex >= Len(list) THEN st
    ELSE LET evalPosition == list[evalIndex + 1]
         IN  IF InRange(st.lower, evalPosition, st.upper)
             THEN ElevScan(list, goingUp, evalIndex + 1,
                    [seekPosition |-> evalPosition, nextIndex |-> evalIndex,
                     lower |-> IF goingUp THEN st.lower ELSE evalPosition,
                     upper |-> IF goingUp THEN evalPosition ELSE st.upper])
             ELSE ElevScan(list, goingUp, evalIndex + 1, st)

\* list[index] = seekPosition; list[nextIndex] = position
ElevSwap(list, at, nextIndex, newPosition, position) ==
    [list EXCEPT ![at + 1] = newPosition, ![nextIndex + 1] = position]

\* one iteration of the loop over index (lines 422-455)
ElevStep(list, at, position, goingUp) ==
    LET st == ElevScan(list, goingUp, at,
                 [seekPosition |-> position, nextIndex |-> at,
                  lower |-> IF goingUp THEN position ELSE INT_MIN,
                  upper |-> IF goingUp THEN INT_MAX ELSE position])
    IN  [list |-> IF st.nextIndex # at
                  THEN ElevSwap(list, at, st.nextIndex, st.seekPosition,
                                list[at + 1])
                  ELSE list,
         seekPosition |-> st.seekPosition]

(***************************************************************************)
(* elevatorAlgorithm of part_000: the scan over j, which moves             *)
(* currentPosition while it scans, and the swap.                           *)
(***************************************************************************)
RECURSIVE ElevScan_p0(_, _, _, _)
ElevScan_p0(list, goingUp, j, st) ==
    IF j >= Len(list) THEN st
    ELSE LET position == list[j + 1]
             distance == abs(position - st.currentPosition)
         IN  IF /\ \/ (goingUp /\ position >= st.currentPosition)
                    \/ (~goingUp /\ position <= st.currentPosition)
                /\ distance < st.smallestDistance
             THEN ElevScan_p0(list, goingUp, j + 1,
                    [bestIndex |-> j, smallestDistance |-> distance,
                     currentPosition |-> position])
             ELSE ElevScan_p0(list, goingUp, j + 1, st)

ElevStep_p0(list, from, position, goingUp) ==
    LET st == ElevScan_p0(list, goingUp, from,
                 [bestIndex |-> -1, smallestDistance |-> INT_MAX,
                  currentPosition |-> position])
    IN  [list |-> IF st.bestIndex # -1
                  THEN Swap(list, from, st.bestIndex) ELSE list,
         bestIndex |-> st.bestIndex,
         currentPosition |-> st.currentPosition]

(***************************************************************************)
(* The schedulers as functions of a whole list: the loops above, run to    *)
(* their end.                                                              *)
(***************************************************************************)
\* elevatorAlgorithm (main.c), lines 420-456: index is not reset between runs
RECURSIVE ElevRuns(_, _, _, _, _)
ElevRuns(list, at, position, goingUp, runsLeft) ==
    IF runsLeft <= 0 THEN list
    ELSE IF at < Len(list)
    THEN LET r == ElevStep(list, at, position, goingUp)
         IN  ElevRuns(r.list, at + 1, r.seekPosition, goingUp, runsLeft)
    ELSE ElevRuns(list, at, position, ~goingUp, runsLeft - 1)

ElevatorOrder(list, start) == ElevRuns(list, 0, start, TRUE, 2)

\* elevatorAlgorithm (part_000), lines 303-336: i restarts at 0 in each pass
RECURSIVE ElevRuns_p0(_, _, _, _, _)
ElevRuns_p0(list, from, position, goingUp, pass) ==
    IF pass >= 2 THEN list
    ELSE IF from < Len(list)
    THEN LET r == ElevStep_p0(list, from, position, goingUp)
         IN  ElevRuns_p0(r.list, from + 1, r.currentPosition, goingUp, pass)
    ELSE ElevRuns_p0(list, 0, position, ~goingUp, pass + 1)

ElevatorOrder_p0(list, start) == ElevRuns_p0(list, 0, start, TRUE, 0)

\* one iteration of the outer loop of shortestSeekFirst (part_000)
SstfStep_p0(list, from, position) ==
    LET best == SstfSelect(list, from, position)
    IN  IF best.bestIndex = -1
        THEN [list |-> list, bestIndex |-> -1, currentPosition |-> position]
        ELSE [list |-> IF best.bestIndex # from
                       THEN Swap(list, from, best.bestIndex) ELSE list,
              bestIndex |-> best.bestIndex,
              currentPosition |-> best.nextPosition]

(***************************************************************************)
(* processInChunks: the buffer, the shift and the refill.                  *)
(***************************************************************************)
\* The buffer holds the cells that have been written: it is a function from
\* the (1-based) positions written so far to their values, and a cell that
\* was never written is not in its domain.
\* buffer[k] = v
Store(buf, k, v) ==
    [x \in (DOMAIN buf) \cup {k + 1} |-> IF x = k + 1 THEN v ELSE buf[x]]

\* SeekList chunk = {buffer, chunkSize}
Chunk == [x \in 1..chunkSize |-> buffer[x]]

\* the buffer after the schedulers wrote `list` through the chunk
WithChunk(list) ==
    [x \in DOMAIN buffer |-> IF x <= Len(list) THEN list[x] ELSE buffer[x]]

(***************************************************************************)
(* extractSeeks: the input stream.  The stream is a sequence of tokens     *)
(* separated by white space; a token is a decimal integer that fits an int *)
(* or a text that is not a number.  fscanf(stream, "%d\n", &seek) yields 1 *)
(* and the value at an integer, 0 at a text that is not a number (which    *)
(* stays unread) and EOF at the end of the stream.                         *)
(***************************************************************************)
Number(v) == [numeric |-> TRUE, value |-> v]

Malformed == [numeric |-> FALSE, value |-> 0]

\* the values the input integers are drawn from: in the track range, at its
\* two ends, and next to them outside
InputValues == {D_SIZE_MIN - 1, D_SIZE_MIN, 1, D_SIZE_MAX, D_SIZE_MAX + 1}

Tokens == {Number(v) : v \in InputValues} \cup {Malformed}

RECURSIVE StreamsOfLen(_)
StreamsOfLen(len) ==
    IF len = 0 THEN {<<>>}
    ELSE {Append(s, t) : s \in StreamsOfLen(len - 1), t \in Tokens}

Streams == UNION {StreamsOfLen(len) : len \in 0..MaxInput}

\* the input whose integers are the requests of `list`
AsInput(list) == [k \in 1..Len(list) |-> Number(list[k])]

\* a range test that leaves out the last track
InTrackRange_exclusive(seek) == D_SIZE_MIN <= seek /\ seek < D_SIZE_MAX

\* D_SIZE_MIN <= seek && seek <= D_SIZE_MAX
InTrackRange(seek) == D_SIZE_MIN <= seek /\ seek <= D_SIZE_MAX

\* the while loop of extractSeeks (main.c): `list` holds seeks[0..number-1],
\* `size` is the capacity of the allocation, `errors` what went to stderr
RECURSIVE ExtractLoop(_, _, _, _, _)
ExtractLoop(input, k, list, size, errors) ==
    IF k > Len(input) \/ ~input[k].numeric
    THEN [list |-> list, size |-> size, errors |-> errors]
    ELSE LET seek == input[k].value
             grown == IF Len(list) = size THEN size * 2 ELSE size
         IN  IF InTrackRange(seek)
             THEN ExtractLoop(input, k + 1, Append(list, seek), grown, errors)
             ELSE ExtractLoop(input, k + 1, list, grown, Append(errors, seek))

\* the while loop of extractSeeks (part_000): every integer is stored
RECURSIVE ExtractLoop_p0(_, _, _, _)
ExtractLoop_p0(input, k, list, size) ==
    IF k > Len(input) \/ ~input[k].numeric
    THEN [list |-> list, size |-> size]
    ELSE LET grown == IF Len(list) = size THEN size * 2 ELSE size
         IN  ExtractLoop_p0(input, k + 1, Append(list, input[k].value), grown)

(***************************************************************************)
(* Initial states: a version, an environment setting, a request list.      *)
(***************************************************************************)
\* the globals as the program is loaded, and the locals before their
\* functions run
Loaded ==
    /\ diagnostics = <<>>
    /\ currentStart = -1
    /\ firstComeStart = D_POS_INIT
    /\ firstComeTally = 0
    /\ shortestStart = D_POS_INIT
    /\ shortestTally = 0
    /\ elevatorStart = D_POS_INIT
    /\ elevatorTally = 0
    /\ initialPosition = D_POS_INIT
    /\ buffer = <<>>
    /\ remaining = 0
    /\ seekIndex = 0
    /\ chunkSize = 0
    /\ shiftIndex = 0
    /\ refillIndex = 0
    /\ i = 0
    /\ bestIndex = -1
    /\ seekPosition = 0
    /\ index = 0
    /\ run = 0
    /\ up = TRUE
    /\ currentPosition = 0
    /\ n = 0
    /\ reported = [fcfs |-> NoStats, sstf |-> NoStats, scan |-> NoStats]
    /\ overview = [count |-> 0, mean |-> Frac(0, 1), stddev |-> Frac(0, 1)]
    /\ arrival = <<>>
    /\ calls = 0

\* main has read the requests: the program is about to call process.  The
\* requests are any short list, for both versions, or one list for main.c
\* that overfills the buffer after its first chunk
Init ==
    /\ \/ version \in {"main", "part_000"} /\ seeks \in SeekLists
       \/ version = "main" /\ seeks = OverfullList
    /\ envPosInit \in EnvSettings
    /\ stream = AsInput(seeks)
    /\ pc = "process"
    /\ Loaded

\* the settings the runs from the input stream are made with
InputSettings == {EnvUnset, [set |-> TRUE, text |-> <<"1">>]}

\* main is about to call extractSeeks on its input stream
InitInput ==
    /\ version \in {"main", "part_000"}
    /\ envPosInit \in InputSettings
    /\ stream \in Streams
    /\ seeks = <<>>
    /\ pc = "main"
    /\ Loaded

\* main has read a long list of requests, or the example
InitChunks ==
    /\ version = "main"
    /\ envPosInit \in {EnvUnset, ExampleStart}
    /\ seeks \in LongLists \cup {ExampleRequests}
    /\ stream = AsInput(seeks)
    /\ pc = "process"
    /\ Loaded

\* extractSeeks (main.c), lines 169-196, called from main
extractSeeks ==
    /\ version = "main"
    /\ pc = "main"
    /\ LET read == ExtractLoop(stream, 1, <<>>, D_DYNAMIC_BASE_SIZE, <<>>)
       IN  /\ seeks' = read.list
           /\ diagnostics' = read.errors
    /\ pc' = "process"
    /\ UNCHANGED <<version, stream, envPosInit, globals, chunkVars, locals,
                   output, history>>

\* extractSeeks (part_000), lines 157-177, called from main
extractSeeks_p0 ==
    /\ version = "part_000"
    /\ pc = "main"
    /\ seeks' = ExtractLoop_p0(stream, 1, <<>>, D_DYNAMIC_BASE_SIZE).list
    /\ pc' = "process"
    /\ UNCHANGED <<version, stream, diagnostics, envPosInit, globals,
                   chunkVars, locals, output, history>>

(***************************************************************************)
(* main.c                                                                  *)
(***************************************************************************)
\* process, lines 200-208
process ==
    /\ version = "main"
    /\ pc = "process"
    /\ IF envPosInit.set
       THEN /\ firstComeStart' = atoi(envPosInit.text)
            /\ shortestStart' = atoi(envPosInit.text)
            /\ elevatorStart' = atoi(envPosInit.text)
       ELSE UNCHANGED <<firstComeStart, shortestStart, elevatorStart>>
    /\ pc' = "chunks_begin"
    /\ UNCHANGED <<version, ingest, envPosInit, seeks, currentStart,
                   firstComeTally, shortestTally, elevatorTally,
                   initialPosition, chunkVars, locals, output, history>>

\* processInChunks, lines 224-228: the locals and the start of the fill
processInChunks_begin ==
    /\ pc = "chunks_begin"
    /\ remaining' = Len(seeks)
    /\ seekIndex' = 0
    /\ pc' = "fill"
    /\ UNCHANGED <<version, ingest, envPosInit, seeks, globals, buffer,
                   chunkSize, shiftIndex, refillIndex, locals, output,
                   history>>

\* processInChunks, lines 228-231: one iteration of the fill
processInChunks_fill ==
    /\ pc = "fill"
    /\ seekIndex < min(BufferSize, remaining)
    /\ buffer' = Store(buffer, seekIndex, seeks[seekIndex + 1])
    /\ seekIndex' = seekIndex + 1
    /\ UNCHANGED <<version, ingest, envPosInit, seeks, pc, globals,
                   remaining, chunkSize, shiftIndex, refillIndex, locals,
                   output, history>>

\* processInChunks, line 228: the fill has ended
processInChunks_filled ==
    /\ pc = "fill"
    /\ ~(seekIndex < min(BufferSize, remaining))
    /\ pc' = "chunk_select"
    /\ UNCHANGED <<version, ingest, envPosInit, seeks, globals, chunkVars,
                   locals, output, history>>

\* processInChunks, lines 233-240: the loop test, the next chunk and the
\* call of processChunk
processInChunks_select ==
    /\ pc = "chunk_select"
    /\ IF remaining # 0
       THEN /\ chunkSize' = min(ChunkMax, remaining)
            /\ arrival' = [x \in 1..min(ChunkMax, remaining) |-> buffer[x]]
            /\ calls' = calls + 1
            /\ pc' = "overview"
       ELSE /\ pc' = "conclusion"
            /\ UNCHANGED <<chunkSize, arrival, calls>>
    /\ UNCHANGED <<version, ingest, envPosInit, seeks, globals, buffer,
                   remaining, seekIndex, shiftIndex, refillIndex, locals,
                   output>>

\* processInChunks, line 243: processChunk has returned
processInChunks_advance ==
    /\ pc = "chunk_advance"
    /\ shiftIndex' = chunkSize
    /\ pc' = "shift"
    /\ UNCHANGED <<version, ingest, envPosInit, seeks, globals, buffer,
                   remaining, seekIndex, chunkSize, refillIndex, locals,
                   output, history>>

\* processInChunks, lines 244-247: one iteration of the shift
processInChunks_shift ==
    /\ pc = "shift"
    /\ shiftIndex < BufferSize /\ shiftIndex < remaining
    /\ buffer' = Store(buffer, shiftIndex - chunkSize, buffer[shiftIndex + 1])
    /\ shiftIndex' = shiftIndex + 1
    /\ UNCHANGED <<version, ingest, envPosInit, seeks, pc, globals,
                   remaining, seekIndex, chunkSize, refillIndex, locals,
                   output, history>>

\* processInChunks_shifted with the refill started at shiftIndex
\* (int i = shiftIndex)
processInChunks_shifted_noOffset ==
    /\ pc = "shift"
    /\ ~(shiftIndex < BufferSize /\ shiftIndex < remaining)
    /\ remaining' = remaining - chunkSize
    /\ refillIndex' = shiftIndex
    /\ pc' = "refill"
    /\ UNCHANGED <<version, ingest, envPosInit, seeks, globals, buffer,
                   seekIndex, chunkSize, shiftIndex, locals, output,
                   history>>

\* processInChunks, lines 244-253: the shift has ended; the count of
\* remaining requests and the start of the refill
processInChunks_shifted ==
    /\ pc = "shift"
    /\ ~(shiftIndex < BufferSize /\ shiftIndex < remaining)
    /\ remaining' = remaining - chunkSize
    /\ refillIndex' = shiftIndex - chunkSize
    /\ pc' = "refill"
    /\ UNCHANGED <<version, ingest, envPosInit, seeks, globals, buffer,
                   seekIndex, chunkSize, shiftIndex, locals, output,
                   history>>

\* processInChunks, lines 253-256: one iteration of the refill
processInChunks_refill ==
    /\ pc = "refill"
    /\ refillIndex < BufferSize /\ refillIndex < remaining
    /\ buffer' = Store(buffer, refillIndex, seeks[seekIndex + 1])
    /\ seekIndex' = seekIndex + 1
    /\ refillIndex' = refillIndex + 1
    /\ UNCHANGED <<version, ingest, envPosInit, seeks, pc, globals,
                   remaining, chunkSize, shiftIndex, locals, output,
                   history>>

\* processInChunks, lines 253 and 257: the refill has ended
processInChunks_refilled ==
    /\ pc = "refill"
    /\ ~(refillIndex < BufferSize /\ refillIndex < remaining)
    /\ pc' = "chunk_select"
    /\ UNCHANGED <<version, ingest, envPosInit, seeks, globals, chunkVars,
                   locals, output, history>>

\* printOverview(seeks, false) in processChunk
printOverview ==
    /\ pc = "overview"
    /\ overview' = Overview(Chunk)
    /\ pc' = "fcfs"
    /\ UNCHANGED <<version, ingest, envPosInit, seeks, globals, chunkVars,
                   locals, reported, history>>

\* printOverview(seeks, true) in process, with printConclusion
printOverview_final ==
    /\ pc = "conclusion"
    /\ overview' = Overview(seeks)
    /\ pc' = "done"
    /\ UNCHANGED <<version, ingest, envPosInit, seeks, globals, chunkVars,
                   locals, reported, history>>

\* firstComeFirstServed with the assignment of line 361 turned round
\* (seeks->list[i] = lastPosition)
firstComeFirstServed_writesList ==
    /\ pc = "fcfs"
    /\ currentStart' = firstComeStart
    /\ buffer' = WithChunk([k \in 1..chunkSize |-> firstComeStart])
    /\ UNCHANGED <<firstComeTally, firstComeStart>>
    /\ pc' = "stats_fcfs"
    /\ UNCHANGED <<version, ingest, envPosInit, seeks, shortestStart,
                   shortestTally, elevatorStart, elevatorTally,
                   initialPosition, remaining, seekIndex, chunkSize,
                   shiftIndex, refillIndex, locals, output, history>>

\* firstComeFirstServed, lines 349-365
firstComeFirstServed ==
    /\ pc = "fcfs"
    /\ currentStart' = firstComeStart
    /\ LET t == TallyLoop(Chunk, 0, firstComeTally, firstComeStart)
       IN  /\ firstComeTally' = t.tally
           /\ firstComeStart' = t.lastPosition
    /\ pc' = "stats_fcfs"
    /\ UNCHANGED <<version, ingest, envPosInit, seeks, shortestStart,
                   shortestTally, elevatorStart, elevatorTally,
                   initialPosition, chunkVars, locals, output, history>>

\* printRunStats, lines 319-336, at one of its three calls in processChunk
printRunStats(policy, here, next) ==
    /\ pc = here
    /\ reported' = [reported EXCEPT ![policy] = RunStats(Chunk, currentStart)]
    /\ pc' = next
    /\ UNCHANGED <<version, ingest, envPosInit, seeks, globals, chunkVars,
                   locals, overview, history>>

\* shortestSeekFirst, lines 369-371
shortestSeekFirst_enter ==
    /\ pc = "sstf"
    /\ currentStart' = shortestStart
    /\ seekPosition' = shortestStart
    /\ i' = 0
    /\ pc' = "sstf_loop"
    /\ UNCHANGED <<version, ingest, envPosInit, seeks, firstComeStart,
                   firstComeTally, shortestStart, shortestTally,
                   elevatorStart, elevatorTally, initialPosition, chunkVars,
                   bestIndex, index, run, up, currentPosition, n, output,
                   history>>

\* shortestSeekFirst_step on a chunk that is the head of the caller's list
\* (SeekList chunk = {seeks.list, chunkSize}), the swap written to both
shortestSeekFirst_step_inPlace ==
    /\ pc = "sstf_loop"
    /\ i < chunkSize
    /\ LET r == SstfStep(Chunk, i, seekPosition, shortestTally)
       IN  /\ buffer' = WithChunk(r.list)
           /\ seeks' = [x \in 1..Len(seeks) |->
                          IF x <= chunkSize THEN r.list[x] ELSE seeks[x]]
           /\ bestIndex' = r.bestIndex
           /\ seekPosition' = r.seekPosition
           /\ shortestTally' = r.tally
    /\ i' = i + 1
    /\ UNCHANGED <<version, ingest, envPosInit, pc, currentStart,
                   firstComeStart, firstComeTally, shortestStart,
                   elevatorStart, elevatorTally, initialPosition, remaining,
                   seekIndex, chunkSize, shiftIndex, refillIndex, index, run,
                   up, currentPosition, n, output, history>>

\* shortestSeekFirst, lines 373-406: one iteration of the loop over i
shortestSeekFirst_step ==
    /\ pc = "sstf_loop"
    /\ i < chunkSize
    /\ LET r == SstfStep(Chunk, i, seekPosition, shortestTally)
       IN  /\ buffer' = WithChunk(r.list)
           /\ bestIndex' = r.bestIndex
           /\ seekPosition' = r.seekPosition
           /\ shortestTally' = r.tally
    /\ i' = i + 1
    /\ UNCHANGED <<version, ingest, envPosInit, seeks, pc, currentStart,
                   firstComeStart, firstComeTally, shortestStart,
                   elevatorStart, elevatorTally, initialPosition, remaining,
                   seekIndex, chunkSize, shiftIndex, refillIndex, index, run,
                   up, currentPosition, n, output, history>>

\* shortestSeekFirst, line 408
shortestSeekFirst_return ==
    /\ pc = "sstf_loop"
    /\ i >= chunkSize
    /\ shortestStart' = seekPosition
    /\ pc' = "stats_sstf"
    /\ UNCHANGED <<version, ingest, envPosInit, seeks, currentStart,
                   firstComeStart, firstComeTally, shortestTally,
                   elevatorStart, elevatorTally, initialPosition, chunkVars,
                   locals, output, history>>

\* elevatorAlgorithm, lines 413-420
elevatorAlgorithm_enter ==
    /\ pc = "scan"
    /\ up' = TRUE
    /\ currentStart' = elevatorStart
    /\ seekPosition' = elevatorStart
    /\ index' = 0
    /\ run' = 2
    /\ pc' = "scan_loop"
    /\ UNCHANGED <<version, ingest, envPosInit, seeks, firstComeStart,
                   firstComeTally, shortestStart, shortestTally,
                   elevatorStart, elevatorTally, initialPosition, chunkVars,
                   i, bestIndex, currentPosition, n, output, history>>

\* elevatorAlgorithm, lines 422-455: one iteration of the loop over index
elevatorAlgorithm_step ==
    /\ pc = "scan_loop"
    /\ run > 0
    /\ index < chunkSize
    /\ LET r == ElevStep(Chunk, index, seekPosition, up)
       IN  /\ buffer' = WithChunk(r.list)
           /\ seekPosition' = r.seekPosition
    /\ index' = index + 1
    /\ UNCHANGED <<version, ingest, envPosInit, seeks, pc, globals, remaining,
                   seekIndex, chunkSize, shiftIndex, refillIndex, i,
                   bestIndex, run, up,
                   currentPosition, n, output, history>>

\* elevatorAlgorithm, line 420: the end of a run (run--, up = !up)
elevatorAlgorithm_turn ==
    /\ pc = "scan_loop"
    /\ run > 0
    /\ index >= chunkSize
    /\ run' = run - 1
    /\ up' = ~up
    /\ UNCHANGED <<version, ingest, envPosInit, seeks, pc, globals, chunkVars,
                   i, bestIndex, seekPosition, index, currentPosition, n,
                   output, history>>

\* elevatorAlgorithm_return with the head of the sweep kept as the new start
\* (the walk of lines 458-467 counting without moving seekPosition back)
elevatorAlgorithm_return_sweepHead ==
    /\ pc = "scan_loop"
    /\ run <= 0
    /\ elevatorTally' = TallyLoop(Chunk, 0, elevatorTally, elevatorStart).tally
    /\ elevatorStart' = seekPosition
    /\ pc' = "stats_scan"
    /\ UNCHANGED <<version, ingest, envPosInit, seeks, currentStart,
                   firstComeStart, firstComeTally, shortestStart,
                   shortestTally, initialPosition, chunkVars, locals,
                   output, history>>

\* elevatorAlgorithm, lines 458-469: the tally and the new start
elevatorAlgorithm_return ==
    /\ pc = "scan_loop"
    /\ run <= 0
    /\ LET t == TallyLoop(Chunk, 0, elevatorTally, elevatorStart)
       IN  /\ elevatorTally' = t.tally
           /\ elevatorStart' = t.lastPosition
           /\ seekPosition' = t.lastPosition
    /\ pc' = "stats_scan"
    /\ UNCHANGED <<version, ingest, envPosInit, seeks, currentStart,
                   firstComeStart, firstComeTally, shortestStart,
                   shortestTally, initialPosition, chunkVars, i, bestIndex,
                   index, run, up, currentPosition, n, output, history>>

(***************************************************************************)
(* part_000                                                                *)
(***************************************************************************)
\* process, lines 181-186
process_p0 ==
    /\ version = "part_000"
    /\ pc = "process"
    /\ initialPosition' = ConfiguredStart(envPosInit)
    /\ arrival' = seeks
    /\ pc' = "p0_overview"
    /\ UNCHANGED calls
    /\ UNCHANGED <<version, ingest, envPosInit, seeks, currentStart,
                   firstComeStart, firstComeTally, shortestStart,
                   shortestTally, elevatorStart, elevatorTally, chunkVars,
                   locals, output>>

\* printOverview, lines 206-241
printOverview_p0 ==
    /\ pc = "p0_overview"
    /\ overview' = Overview_p0(seeks)
    /\ pc' = "p0_stats_fcfs"
    /\ UNCHANGED <<version, ingest, envPosInit, seeks, globals, chunkVars,
                   locals, reported, history>>

\* printRunStats, lines 243-259, at one of its three calls in process
printRunStats_p0(policy, here, next) ==
    /\ pc = here
    /\ reported' = [reported EXCEPT ![policy] = RunStats(seeks, initialPosition)]
    /\ pc' = next
    /\ UNCHANGED <<version, ingest, envPosInit, seeks, globals, chunkVars,
                   locals, overview, history>>

\* shortestSeekFirst, line 263
shortestSeekFirst_p0_enter ==
    /\ pc = "p0_sstf"
    /\ currentPosition' = initialPosition
    /\ i' = 0
    /\ pc' = "p0_sstf_loop"
    /\ UNCHANGED <<version, ingest, envPosInit, seeks, globals, chunkVars,
                   bestIndex, seekPosition, index, run, up, n, output,
                   history>>

\* shortestSeekFirst, lines 265-294: one iteration of the loop over i
shortestSeekFirst_p0_step ==
    /\ pc = "p0_sstf_loop"
    /\ i < Len(seeks)
    /\ LET r == SstfStep_p0(seeks, i, currentPosition)
       IN  /\ seeks' = r.list
           /\ bestIndex' = r.bestIndex
           /\ currentPosition' = r.currentPosition
    /\ i' = i + 1
    /\ UNCHANGED <<version, ingest, envPosInit, pc, globals, chunkVars,
                   seekPosition, index, run, up, n, output, history>>

\* shortestSeekFirst, line 295
shortestSeekFirst_p0_return ==
    /\ pc = "p0_sstf_loop"
    /\ i >= Len(seeks)
    /\ pc' = "p0_stats_sstf"
    /\ UNCHANGED <<version, ingest, envPosInit, seeks, globals, chunkVars,
                   locals, output, history>>

\* elevatorAlgorithm, lines 299-303
elevatorAlgorithm_p0_enter ==
    /\ pc = "p0_scan"
    /\ currentPosition' = initialPosition
    /\ up' = TRUE
    /\ n' = 0
    /\ i' = 0
    /\ pc' = "p0_scan_loop"
    /\ UNCHANGED <<version, ingest, envPosInit, seeks, globals, chunkVars,
                   bestIndex, seekPosition, index, run, output, history>>

\* elevatorAlgorithm, lines 305-333: one iteration of the loop over i
elevatorAlgorithm_p0_step ==
    /\ pc = "p0_scan_loop"
    /\ n < 2
    /\ i < Len(seeks)
    /\ LET r == ElevStep_p0(seeks, i, currentPosition, up)
       IN  /\ seeks' = r.list
           /\ bestIndex' = r.bestIndex
           /\ currentPosition' = r.currentPosition
    /\ i' = i + 1
    /\ UNCHANGED <<version, ingest, envPosInit, pc, globals, chunkVars,
                   seekPosition, index, run, up, n, output, history>>

\* elevatorAlgorithm, lines 303-305 and 335: the end of a pass
elevatorAlgorithm_p0_turn ==
    /\ pc = "p0_scan_loop"
    /\ n < 2
    /\ i >= Len(seeks)
    /\ up' = ~up
    /\ n' = n + 1
    /\ i' = 0
    /\ UNCHANGED <<version, ingest, envPosInit, seeks, pc, globals, chunkVars,
                   bestIndex, seekPosition, index, run, currentPosition,
                   output, history>>

\* elevatorAlgorithm, line 337
elevatorAlgorithm_p0_return ==
    /\ pc = "p0_scan_loop"
    /\ n >= 2
    /\ pc' = "p0_stats_scan"
    /\ UNCHANGED <<version, ingest, envPosInit, seeks, globals, chunkVars,
                   locals, output, history>>

Next ==
    \/ process
    \/ processInChunks_begin
    \/ processInChunks_fill
    \/ processInChunks_filled
    \/ processInChunks_select
    \/ printOverview
    \/ firstComeFirstServed
    \/ printRunStats("fcfs", "stats_fcfs", "sstf")
    \/ shortestSeekFirst_enter
    \/ shortestSeekFirst_step
    \/ shortestSeekFirst_return
    \/ printRunStats("sstf", "stats_sstf", "scan")
    \/ elevatorAlgorithm_enter
    \/ elevatorAlgorithm_step
    \/ elevatorAlgorithm_turn
    \/ elevatorAlgorithm_return
    \/ printRunStats("scan", "stats_scan", "chunk_advance")
    \/ processInChunks_advance
    \/ processInChunks_shift
    \/ processInChunks_shifted
    \/ processInChunks_refill
    \/ processInChunks_refilled
    \/ printOverview_final
    \/ process_p0
    \/ printOverview_p0
    \/ printRunStats_p0("fcfs", "p0_stats_fcfs", "p0_sstf")
    \/ shortestSeekFirst_p0_enter
    \/ shortestSeekFirst_p0_step
    \/ shortestSeekFirst_p0_return
    \/ printRunStats_p0("sstf", "p0_stats_sstf", "p0_scan")
    \/ elevatorAlgorithm_p0_enter
    \/ elevatorAlgorithm_p0_step
    \/ elevatorAlgorithm_p0_turn
    \/ elevatorAlgorithm_p0_return
    \/ printRunStats_p0("scan", "p0_stats_scan", "done")

Spec == Init /\ [][Next]_vars

\* main reading its input stream, up to the call of process (where Init
\* takes over)
NextInput ==
    \/ extractSeeks
    \/ extractSeeks_p0

SpecInput == InitInput /\ [][NextInput]_vars

\* process and all it calls in main.c
NextMain ==
    \/ process
    \/ processInChunks_begin
    \/ processInChunks_fill
    \/ processInChunks_filled
    \/ processInChunks_select
    \/ processInChunks_advance
    \/ processInChunks_shift
    \/ processInChunks_shifted
    \/ processInChunks_refill
    \/ processInChunks_refilled
    \/ printOverview
    \/ printOverview_final
    \/ firstComeFirstServed
    \/ printRunStats("fcfs", "stats_fcfs", "sstf")
    \/ shortestSeekFirst_enter
    \/ shortestSeekFirst_step
    \/ shortestSeekFirst_return
    \/ printRunStats("sstf", "stats_sstf", "scan")
    \/ elevatorAlgorithm_enter
    \/ elevatorAlgorithm_step
    \/ elevatorAlgorithm_turn
    \/ elevatorAlgorithm_return
    \/ printRunStats("scan", "stats_scan", "chunk_advance")

\* main.c on long lists: processInChunks makes several chunks
SpecChunks == InitChunks /\ [][NextMain]_vars

(***************************************************************************)
(* Vocabulary of the properties.                                           *)
(***************************************************************************)
\* the list the schedulers work on
Current == IF version = "main" THEN Chunk ELSE seeks

\* the start position the run was configured with
Configured == ConfiguredStart(envPosInit)

\* positions of the program between the entry and the exit of the schedulers
SchedulingPcs ==
    {"fcfs", "stats_fcfs", "sstf", "sstf_loop", "stats_sstf", "scan",
     "scan_loop", "stats_scan", "chunk_advance",
     "p0_overview", "p0_stats_fcfs", "p0_sstf", "p0_sstf_loop",
     "p0_stats_sstf", "p0_scan", "p0_scan_loop", "p0_stats_scan"}

\* all three policies have run and reported on the list
AllReported ==
    \/ version = "main" /\ pc = "chunk_advance"
    \/ version = "part_000" /\ pc = "done"

Count(list, v) == Cardinality({k \in 1..Len(list) : list[k] = v})

Values(list) == {list[k] : k \in 1..Len(list)}

IsPermutation(a, b) ==
    /\ Len(a) = Len(b)
    /\ \A v \in Values(a) \cup Values(b) : Count(a, v) = Count(b, v)

\* |S[0]-p| + sum over k >= 1 of |S[k]-S[k-1]|, by the formula
RECURSIVE PathLength(_, _, _)
PathLength(p, S, len) ==
    IF len = 0 THEN 0
    ELSE IF len = 1 THEN abs(S[1] - p)
    ELSE PathLength(p, S, len - 1) + abs(S[len] - S[len - 1])

(***************************************************************************)
(* C1: after firstComeFirstServed, shortestSeekFirst and elevatorAlgorithm *)
(* (main.c and part_000) the list is a permutation of the list before the  *)
(* call: same length, same multiset of values.  It holds after every       *)
(* iteration of their loops as well.                                       *)
(***************************************************************************)
C1_Permutation ==
    (pc \in SchedulingPcs \/ AllReported) => IsPermutation(Current, arrival)

\* a list with a repeated value that the schedulers have reordered
C1_Witness ==
    /\ AllReported
    /\ Current # arrival
    /\ \E v \in Values(arrival) : Count(arrival, v) > 1

(***************************************************************************)
(* C2: at every step i of shortestSeekFirst the request placed at slot i   *)
(* minimizes |candidate - currentHead| over the unplaced suffix            *)
(* list[i..length-1]; currentHead is the starting position for i = 0 and   *)
(* the request placed at slot i-1 otherwise.                               *)
(***************************************************************************)
\* the head position the claim names for step k of `list`
HeadAt(list, k) ==
    IF k = 0
    THEN (IF version = "main" THEN currentStart ELSE initialPosition)
    ELSE list[k]

SstfStepTaken == pc \in {"sstf_loop", "p0_sstf_loop"} /\ i' = i + 1

\* C2: every step of shortestSeekFirst places a request at minimal
\* distance from the head among the unplaced suffix
C2_SstfPicksNearest ==
    [][SstfStepTaken =>
         \A j \in i..(Len(Current) - 1) :
            abs(Current'[i + 1] - HeadAt(Current, i))
              <= abs(Current[j + 1] - HeadAt(Current, i))]_vars

\* the second step has been taken and it moved a request forward that was
\* not the nearest to the start
C2_Witness ==
    /\ pc \in {"sstf_loop", "p0_sstf_loop"}
    /\ i = 2
    /\ Len(Current) = 3
    /\ Current[2] # arrival[2]
    /\ abs(Current[2] - Current[1]) < abs(Current[3] - Current[1])

(***************************************************************************)
(* C3: elevatorAlgorithm (main.c) sweeps up, then down: the down sweep     *)
(* places, at each index the up sweep did not finalize, the closest        *)
(* remaining request below the head, so the requests left after the up     *)
(* sweep come out in decreasing order of position.                         *)
(*                                                                         *)
(* The code does not do this: index is at the end of the list when the     *)
(* second run starts, and the requests the up sweep left stay where the    *)
(* swaps of the up sweep put them.                                         *)
(***************************************************************************)
\* the number of leading slots the up sweep filled: the longest prefix that
\* rises strictly from the start position
RECURSIVE UpPlaced(_, _, _)
UpPlaced(list, position, k) ==
    IF k < Len(list) /\ list[k + 1] > position
    THEN UpPlaced(list, list[k + 1], k + 1)
    ELSE k

\* C3: after elevatorAlgorithm the requests behind the slots the up sweep
\* filled are in decreasing order of position
C3_DownSweepDescends ==
    (version = "main" /\ pc = "stats_scan") =>
        \A a, b \in (UpPlaced(Chunk, currentStart, 0) + 1)..Len(Chunk) :
           a < b => Chunk[a] >= Chunk[b]

(***************************************************************************)
(* C4: for every start p and every sequence that is not monotonic, the     *)
(* total distance of the elevatorAlgorithm ordering is <= the total        *)
(* distance of the arrival (FCFS) ordering from the same p.                *)
(*                                                                         *)
(* That fails, also where the elevator order is a complete sweep up        *)
(* followed by a complete sweep down: from start 1 the requests 0, 4, 3    *)
(* cost FCFS 6, and the sweep 3, 4, 0 costs 7.  The original claim is      *)
(* stated here for those runs only, so that its failure does not rest on   *)
(* the missing down sweep (C3).  What holds, when all three policies start *)
(* from the same p: if no request lies above p, or if all requests lie     *)
(* strictly above p and are pairwise distinct, the elevator distance is    *)
(* <= the FCFS distance.                                                   *)
(***************************************************************************)
Rising(list) == \A k \in 1..(Len(list) - 1) : list[k] <= list[k + 1]

Falling(list) == \A k \in 1..(Len(list) - 1) : list[k] >= list[k + 1]

Distinct(list) == \A a, b \in 1..Len(list) : a # b => list[a] # list[b]

SameStart ==
    /\ reported.scan.start = reported.fcfs.start
    /\ reported.sstf.start = reported.fcfs.start

NoneAbove(list, p) == \A k \in 1..Len(list) : list[k] <= p

AllAbove(list, p) == \A k \in 1..Len(list) : list[k] > p

\* L rises through the requests above p, then falls through the others
TwoSweeps(L, p) ==
    \A a, b \in 1..Len(L) :
       a < b => /\ (L[a] > p /\ L[b] > p) => L[a] <= L[b]
                /\ (L[a] <= p /\ L[b] <= p) => L[a] >= L[b]
                /\ ~(L[a] <= p /\ L[b] > p)

\* C4, as stated (for runs that end in a complete up-then-down order): on
\* a sequence that is not monotonic the elevator distance is <= the FCFS
\* distance from the same start
C4_ScanNoWorseThanFcfs_Original ==
    (/\ version = "main" /\ AllReported /\ SameStart
     /\ ~Rising(arrival) /\ ~Falling(arrival)
     /\ TwoSweeps(reported.scan.list, reported.scan.start))
      => reported.scan.distance <= reported.fcfs.distance

\* C4, amended: from a common start p, with no request above p, or with
\* distinct requests all strictly above p, the elevator distance is <= the
\* FCFS distance
C4_ScanNoWorseThanFcfs ==
    (/\ version = "main" /\ AllReported /\ SameStart
     /\ \/ NoneAbove(arrival, reported.fcfs.start)
        \/ AllAbove(arrival, reported.fcfs.start) /\ Distinct(arrival))
      => reported.scan.distance <= reported.fcfs.distance

\* distinct requests above the start, not in monotonic order, and the
\* elevator travelled strictly less than FCFS
C4_Witness ==
    /\ version = "main" /\ AllReported /\ SameStart /\ Distinct(arrival)
    /\ AllAbove(arrival, reported.fcfs.start)
    /\ ~Rising(arrival) /\ ~Falling(arrival)
    /\ reported.scan.distance < reported.fcfs.distance

(***************************************************************************)
(* C5: the total distance printRunStats reports for an ordering S and the  *)
(* start p of the policy just run is |S[0]-p| + sum over i >= 1 of         *)
(* |S[i]-S[i-1]|; it is >= 0, and 0 only if every element of S equals p.   *)
(* For FCFS, S is the arrival order of the chunk it has just run on.  (p   *)
(* is the configured start while the first chunk is processed.)            *)
(***************************************************************************)
Policies == {"fcfs", "sstf", "scan"}

FirstChunk == version = "part_000" \/ remaining = Len(seeks)

\* C5: every reported distance is the path length from the start through
\* the reported list; it is >= 0, and 0 only if all requests equal the start
C5_ReportedDistance ==
    \A policy \in Policies :
       reported[policy].printed =>
          LET r == reported[policy]
          IN  /\ r.distance = PathLength(r.start, r.list, Len(r.list))
              /\ r.distance >= 0
              /\ r.distance = 0 => \A k \in 1..Len(r.list) : r.list[k] = r.start
              /\ FirstChunk => r.start = Configured
              /\ (policy = "fcfs" /\ pc \in {"sstf", "p0_sstf"})
                   => r.list = arrival

\* a report over three requests where the head turned round
C5_Witness ==
    /\ reported.sstf.printed
    /\ Len(reported.sstf.list) = 3
    /\ reported.sstf.list[1] < reported.sstf.start
    /\ reported.sstf.list[3] > reported.sstf.start
    /\ reported.sstf.distance > 0

(***************************************************************************)
(* C6: for an empty request sequence the run reports distance 0 for all    *)
(* three algorithms, and mean and standard deviation are 0, not NaN.       *)
(*                                                                         *)
(* The code divides 0 by (double) 0: mean and standard deviation are NaN   *)
(* in both versions, and main.c reports no distance at all, since          *)
(* processChunk is never called.                                           *)
(***************************************************************************)
IsZero(x) == ~x.nan /\ x.num = 0

\* C6: a run over no requests ends with distance 0 reported for the three
\* policies and with mean and standard deviation 0
C6_EmptyInput ==
    (pc = "done" /\ Len(seeks) = 0) =>
        /\ \A policy \in Policies :
              reported[policy].printed /\ reported[policy].distance = 0
        /\ IsZero(overview.mean)
        /\ IsZero(overview.stddev)

(***************************************************************************)
(* C7: when several unplaced requests are at the same minimal distance     *)
(* from the current head position (one above, one below included),         *)
(* shortestSeekFirst selects the one at the lowest index of the unplaced   *)
(* suffix.                                                                 *)
(***************************************************************************)
\* the distance of the request at C index j of the list from the head of
\* step i
DistanceAt(j) == abs(Current[j + 1] - HeadAt(Current, i))

Nearest(j) == \A k \in i..(Len(Current) - 1) : DistanceAt(j) <= DistanceAt(k)

\* C7: the request shortestSeekFirst selects is the nearest one of lowest
\* index in the unplaced suffix, and it is the one placed at slot i
C7_SstfTieBreak ==
    [][SstfStepTaken =>
         /\ bestIndex' \in i..(Len(Current) - 1)
         /\ Nearest(bestIndex')
         /\ \A j \in i..(Len(Current) - 1) : Nearest(j) => bestIndex' <= j
         /\ Current'[i + 1] = Current[bestIndex' + 1]]_vars

\* the first step has been taken; in arrival order the nearest requests to
\* the start were one below it and, later in the list, one above it, and
\* the one below was placed
C7_Witness ==
    /\ pc \in {"sstf_loop", "p0_sstf_loop"}
    /\ i = 1
    /\ \E a, b \in 1..Len(arrival) :
          /\ a < b
          /\ arrival[a] < HeadAt(arrival, 0)
          /\ arrival[b] > HeadAt(arrival, 0)
          /\ \A k \in 1..Len(arrival) :
                abs(arrival[a] - HeadAt(arrival, 0))
                  <= abs(arrival[k] - HeadAt(arrival, 0))
          /\ abs(arrival[a] - HeadAt(arrival, 0))
               = abs(arrival[b] - HeadAt(arrival, 0))
          /\ Current[1] = arrival[a]

(***************************************************************************)
(* C8: firstComeFirstServed leaves the request sequence exactly as it was  *)
(* (so running it again changes nothing either); it changes only the FCFS  *)
(* head position and tally (and currentStart, the start printRunStats      *)
(* prints).                                                                *)
(***************************************************************************)
C8_FcfsLeavesSequence ==
    [][pc = "fcfs" =>
         /\ Chunk' = Chunk
         /\ UNCHANGED <<buffer, chunkSize, seeks, shortestStart,
                        shortestTally, elevatorStart, elevatorTally>>]_vars

\* firstComeFirstServed has run over a list that makes the head move
C8_Witness ==
    /\ pc = "stats_fcfs"
    /\ Len(Chunk) = 3
    /\ Chunk = arrival
    /\ firstComeTally = 3
    /\ firstComeStart = Chunk[3]

(***************************************************************************)
(* C9: within processChunk (and process of part_000) the ordering and the  *)
(* total distance elevatorAlgorithm produces are those of                  *)
(* elevatorAlgorithm run on the arrival order from the same start: the     *)
(* earlier shortestSeekFirst run has no effect on the result.              *)
(*                                                                         *)
(* The code runs elevatorAlgorithm on the list as shortestSeekFirst left   *)
(* it, and the result differs.                                             *)
(***************************************************************************)
ElevatorAlone ==
    IF version = "main"
    THEN ElevatorOrder(arrival, reported.scan.start)
    ELSE ElevatorOrder_p0(arrival, reported.scan.start)

\* C9: the elevator report equals the report of elevatorAlgorithm run on
\* the arrival order from the same start
C9_ElevatorIndependent ==
    AllReported =>
        /\ reported.scan.list = ElevatorAlone
        /\ reported.scan.distance
             = PathLength(reported.scan.start, ElevatorAlone,
                          Len(ElevatorAlone))

(***************************************************************************)
(* C10: for a single request [x] and start p all three algorithms leave    *)
(* the sequence as [x] and report the distance |x - p|, whether x is       *)
(* above, below or equal to p.                                             *)
(***************************************************************************)
C10_SingleRequest ==
    (pc = "done" /\ Len(seeks) = 1) =>
        \A policy \in Policies :
           /\ reported[policy].printed
           /\ reported[policy].list = arrival
           /\ reported[policy].distance = abs(arrival[1] - Configured)

\* a run over one request below the start has ended
C10_Witness ==
    /\ pc = "done"
    /\ Len(seeks) = 1
    /\ arrival[1] < Configured
    /\ reported.scan.printed

(***************************************************************************)
(* C11: once process has read the setting D_POS_INIT, the initial head     *)
(* position of all three policies (main.c; the one initialPosition in      *)
(* part_000) is the number the setting holds when it is set to a number,   *)
(* and the default 32767 when it is not set or its value is not a number.  *)
(***************************************************************************)
\* the setting is present and is a decimal number
IsNumber(env) ==
    /\ env.set
    /\ Len(env.text) > 0
    /\ \A k \in 1..Len(env.text) : IsDigit(env.text[k])

RECURSIVE DecimalValue(_, _)
DecimalValue(text, len) ==
    IF len = 0 THEN 0
    ELSE 10 * DecimalValue(text, len - 1) + DigitValue(text[len])

\* process has returned from reading the setting
SettingRead ==
    \/ version = "main" /\ pc = "chunks_begin"
    \/ version = "part_000" /\ pc = "p0_overview"

InitialPositions ==
    IF version = "main"
    THEN {firstComeStart, shortestStart, elevatorStart}
    ELSE {initialPosition}

C11_InitialPosition ==
    SettingRead =>
        InitialPositions
          = {IF IsNumber(envPosInit)
             THEN DecimalValue(envPosInit.text, Len(envPosInit.text))
             ELSE D_POS_INIT}

(***************************************************************************)
(* Vocabulary of the properties of extractSeeks.                           *)
(***************************************************************************)
\* extractSeeks has returned
Extracted == pc = "process"

IsInteger(token) == token.numeric

\* the position of the first token that is not a number (past the end when
\* every token is an integer)
FirstMalformed(input) ==
    IF \A k \in 1..Len(input) : IsInteger(input[k]) THEN Len(input) + 1
    ELSE CHOOSE k \in 1..Len(input) :
            /\ ~IsInteger(input[k])
            /\ \A h \in 1..(k - 1) : IsInteger(input[h])

\* the values of the integers of a stream, in input order
IntegersOf(input) ==
    LET ints == SelectSeq(input, IsInteger)
    IN  [k \in 1..Len(ints) |-> ints[k].value]

InBounds(v) == 0 <= v /\ v <= 65535

OutOfBounds(v) == ~InBounds(v)

\* the integers fscanf delivers: those in front of the first malformed token
\* (all of them when the input holds integers only)
Delivered(input) == IntegersOf(SubSeq(input, 1, FirstMalformed(input) - 1))

(***************************************************************************)
(* C12: extractSeeks (main.c) discards every input integer outside         *)
(* [0, 65535] and keeps reading.  The request sequence it returns is       *)
(* exactly the subsequence of in-range values, in input order, of the      *)
(* integers the stream delivers (the whole input when it holds integers    *)
(* only); every stored request satisfies 0 <= value <= 65535, every        *)
(* discarded integer is reported on stderr, and no in-range value that     *)
(* follows an out-of-range one is lost.                                    *)
(***************************************************************************)
C12_OutOfRangeDiscarded ==
    (version = "main" /\ Extracted) =>
        /\ seeks = SelectSeq(Delivered(stream), InBounds)
        /\ \A k \in 1..Len(seeks) : 0 <= seeks[k] /\ seeks[k] <= 65535
        /\ diagnostics = SelectSeq(Delivered(stream), OutOfBounds)

\* an input of integers only, where in-range values (both ends of the range
\* among them) follow an out-of-range one, has been read
C12_Witness ==
    /\ version = "main"
    /\ Extracted
    /\ \A k \in 1..Len(stream) : IsInteger(stream[k])
    /\ Len(stream) = 3
    /\ OutOfBounds(stream[1].value)
    /\ {stream[2].value, stream[3].value} = {0, 65535}
    /\ Len(seeks) = 2

(***************************************************************************)
(* C13: a malformed (non-numeric) input value is recoverable.              *)
(* extractSeeks skips that single value, emits a diagnostic and continues, *)
(* so the well-formed in-range values of the whole input, those behind a   *)
(* malformed value included, are the in-range requests of the returned     *)
(* sequence, and stderr holds a diagnostic when the input holds a          *)
(* malformed value.                                                        *)
(***************************************************************************)
C13_MalformedSkipped ==
    Extracted =>
        /\ SelectSeq(seeks, InBounds)
             = SelectSeq(IntegersOf(stream), InBounds)
        /\ (\E k \in 1..Len(stream) : ~IsInteger(stream[k]))
             => diagnostics # <<>>

(***************************************************************************)
(* C15: in the up sweep of elevatorAlgorithm (main.c), at each output      *)
(* index the request swapped in is the smallest value strictly greater     *)
(* than the current head position among the requests not yet placed, the   *)
(* one of lowest index among equal values, and the head moves to it: the   *)
(* values the sweep places are strictly increasing and a request equal to  *)
(* the head position is never selected.  When no unplaced request is       *)
(* strictly above the head, the head position and the sequence are left    *)
(* unchanged.                                                              *)
(***************************************************************************)
\* the (1-based) places of the unplaced requests strictly above the head
AboveHead == {j \in (index + 1)..chunkSize : Chunk[j] > seekPosition}

\* the lowest place that holds the smallest value of a non-empty set of places
LowestOfSmallest(places) ==
    CHOOSE j \in places :
        \A h \in places :
            Chunk[j] < Chunk[h] \/ (Chunk[j] = Chunk[h] /\ j <= h)

UpSweepStep ==
    /\ version = "main"
    /\ pc = "scan_loop"
    /\ up
    /\ index' = index + 1

C15_UpSweepSelectsNextAbove ==
    [][UpSweepStep =>
        IF AboveHead = {}
        THEN seekPosition' = seekPosition /\ Chunk' = Chunk
        ELSE LET j == LowestOfSmallest(AboveHead)
             IN  /\ seekPosition' = Chunk[j]
                 /\ seekPosition' > seekPosition
                 /\ Chunk' = [Chunk EXCEPT ![index + 1] = Chunk[j],
                                           ![j] = Chunk[index + 1]]]_vars

\* the sweep has swapped the first of two equal requests above the head in
\* front of a request below the head
C15_Witness ==
    /\ version = "main"
    /\ pc = "scan_loop"
    /\ up
    /\ index = 1
    /\ chunkSize = 3
    /\ Chunk[1] = seekPosition
    /\ Chunk[1] > currentStart
    /\ Chunk[2] < currentStart
    /\ Chunk[3] = Chunk[1]

(***************************************************************************)
(* C18: in one call of shortestSeekFirst (main.c), shortestTally increases *)
(* by exactly the number of distinct values in the chunk that differ from  *)
(* the chunk's starting head position.  Step by step: an iteration adds 1  *)
(* when the request it places is at a position that is neither the start   *)
(* nor the position of a request placed before it, and adds nothing        *)
(* otherwise (requests at one position are serviced consecutively and the  *)
(* head never returns to a position it has left); at the return of the     *)
(* first call the tally is the number of distinct values of the chunk      *)
(* other than the start.                                                   *)
(***************************************************************************)
\* the positions the head has been at when i requests are placed
Visited == {currentStart} \cup {Chunk[k] : k \in 1..i}

SstfIteration == version = "main" /\ pc = "sstf_loop" /\ i' = i + 1

SstfReturn == version = "main" /\ pc = "sstf_loop" /\ pc' = "stats_sstf"

C18_TallyCountsDistinct ==
    [][/\ SstfIteration =>
            shortestTally'
              = shortestTally + (IF Chunk'[i + 1] \in Visited THEN 0 ELSE 1)
       /\ (SstfReturn /\ FirstChunk) =>
            shortestTally = Cardinality(Values(arrival) \ {currentStart})]_vars

\* a call has returned on a chunk that holds a value twice, apart, and a
\* request at the start position
C18_Witness ==
    /\ version = "main"
    /\ pc = "stats_sstf"
    /\ Len(arrival) = 3
    /\ arrival[1] = arrival[3]
    /\ arrival[2] = currentStart
    /\ arrival[1] # currentStart
    /\ shortestTally = 1

(***************************************************************************)
(* C20: in the earlier elevatorAlgorithm (part_000), during the up pass    *)
(* the request swapped into output slot i is the one closest to the head   *)
(* position, as it was when the scan of that slot began, among the         *)
(* unplaced requests list[i..length-1] that lie at or above that head      *)
(* position; and the second (down) pass changes only slots that the up     *)
(* pass did not fill.                                                      *)
(***************************************************************************)
\* the (1-based) places of the unplaced requests at or above the head
AtOrAboveHead == {j \in (i + 1)..Len(seeks) : seeks[j] >= currentPosition}

\* the number of slots the up pass fills when it is run on `list` from
\* `position`: the iterations that find a request (bestIndex # -1)
RECURSIVE UpPassFilled(_, _, _)
UpPassFilled(list, from, position) ==
    IF from >= Len(list) THEN 0
    ELSE LET r == ElevStep_p0(list, from, position, TRUE)
         IN  (IF r.bestIndex # -1 THEN 1 ELSE 0)
               + UpPassFilled(r.list, from + 1, r.currentPosition)

ElevatorStep_p0 ==
    version = "part_000" /\ pc = "p0_scan_loop" /\ i' = i + 1

C20_EarlierElevatorUpPass ==
    [][/\ (ElevatorStep_p0 /\ n = 0 /\ AtOrAboveHead # {}) =>
            \A j \in AtOrAboveHead :
                abs(seeks'[i + 1] - currentPosition)
                  <= abs(seeks[j] - currentPosition)
       /\ (ElevatorStep_p0 /\ n = 1) =>
            \A k \in 1..UpPassFilled(reported.sstf.list, 0, initialPosition) :
                seeks'[k] = seeks[k]]_vars

(***************************************************************************)
(* C14: for the requests [98, 183, 37, 122, 14, 124, 65, 67] and the start *)
(* position 53, the total travel distance of the ordering produced by      *)
(* shortestSeekFirst is less than or equal to the total travel distance of *)
(* the FCFS (arrival) ordering, and the first request SSTF services is 65. *)
(***************************************************************************)
\* the three policies have run on the example from the start 53
ExampleRun ==
    /\ AllReported
    /\ arrival = <<98, 183, 37, 122, 14, 124, 65, 67>>
    /\ reported.fcfs.start = 53
    /\ reported.sstf.start = 53

C14_SstfExample ==
    ExampleRun =>
        /\ reported.sstf.list[1] = 65
        /\ reported.sstf.distance <= reported.fcfs.distance
        /\ PathLength(53, reported.sstf.list, Len(reported.sstf.list))
             <= PathLength(53, arrival, Len(arrival))

\* the example has been run: SSTF travelled 236 tracks, FCFS 640
C14_Witness ==
    /\ ExampleRun
    /\ reported.sstf.list = <<65, 67, 37, 14, 98, 122, 124, 183>>
    /\ reported.sstf.distance = 236
    /\ reported.fcfs.distance = 640

(***************************************************************************)
(* C16: for a request list of any length n >= 0, processInChunks           *)
(* terminates after calling processChunk exactly ceil(n/20) times; the     *)
(* k-th chunk (k from 0) holds exactly the requests                        *)
(* list[20k .. min(20k+20, n)-1] in arrival order, so every request is     *)
(* scheduled in exactly one chunk and none is skipped or repeated; every   *)
(* buffer access stays within indices 0..99 and every read of the list     *)
(* stays within indices 0..n-1.                                            *)
(***************************************************************************)
\* ceil(n/20)
ChunksOf(len) == (len + 19) \div 20

\* list[20k .. min(20k+20, n)-1]
Slice(list, k) ==
    SubSeq(list, 20 * k + 1, IF 20 * k + 20 < Len(list) THEN 20 * k + 20
                            ELSE Len(list))

InBuffer(k) == 0 <= k /\ k <= 99

InList(k) == 0 <= k /\ k <= Len(seeks) - 1

\* the accesses the next iteration of a loop of processInChunks makes
AccessesInRange ==
    /\ (pc = "fill" /\ ENABLED processInChunks_fill)
          => InBuffer(seekIndex) /\ InList(seekIndex)
    /\ (pc = "shift" /\ ENABLED processInChunks_shift)
          => /\ InBuffer(shiftIndex)
             /\ InBuffer(shiftIndex - chunkSize)
             /\ shiftIndex + 1 \in DOMAIN buffer
    /\ (pc = "refill" /\ ENABLED processInChunks_refill)
          => InBuffer(refillIndex) /\ InList(seekIndex)
    /\ (pc = "chunk_select" /\ remaining # 0)
          => \A k \in 0..(min(20, remaining) - 1) :
                InBuffer(k) /\ k + 1 \in DOMAIN buffer

\* the calls of processChunk so far and the chunk of the last one
ChunksInOrder ==
    /\ calls <= ChunksOf(Len(seeks))
    /\ calls >= 1 => arrival = Slice(seeks, calls - 1)
    /\ pc \in {"conclusion", "done"} => calls = ChunksOf(Len(seeks))

Terminated == pc = "done"

\* Termination: every step the program takes lowers a rank that is never
\* negative, so no run goes on for ever.  The rank counts 1000 for
\* each turn of the while loop that is not yet over (`remaining` is counted
\* down in the middle of a turn, before the refill) and, within a turn, the
\* place reached in it.
TurnsLeft ==
    IF pc \in {"process", "chunks_begin"} THEN ChunksOf(Len(seeks)) + 1
    ELSE IF pc \in {"fill", "refill"} THEN ChunksOf(remaining) + 1
    ELSE ChunksOf(remaining)

PlaceInTurn ==
    CASE pc = "process" -> 900
      [] pc = "chunks_begin" -> 800
      [] pc = "fill" -> 100 + (100 - seekIndex)
      [] pc = "chunk_select" -> 900
      [] pc = "overview" -> 880
      [] pc = "fcfs" -> 860
      [] pc = "stats_fcfs" -> 840
      [] pc = "sstf" -> 820
      [] pc = "sstf_loop" -> 700 + (chunkSize - i)
      [] pc = "stats_sstf" -> 690
      [] pc = "scan" -> 680
      [] pc = "scan_loop" -> 500 + 50 * run + (chunkSize - index)
      [] pc = "stats_scan" -> 490
      [] pc = "chunk_advance" -> 480
      [] pc = "shift" -> 300 + (100 - shiftIndex)
      [] pc = "refill" -> 100 + (100 - refillIndex)
      [] pc = "conclusion" -> 1
      [] pc = "done" -> 0

Rank == 1000 * TurnsLeft + PlaceInTurn

C16_ChunksCoverList ==
    /\ [](AccessesInRange /\ ChunksInOrder)
    /\ [](Rank >= 0)
    /\ [][Rank' < Rank]_vars

\* a run over 125 requests has ended after seven chunks, the last of five
\* requests
C16_Witness ==
    /\ Terminated
    /\ seeks = Scattered(125)
    /\ calls = 7
    /\ Len(arrival) = 5
    /\ seekIndex = 125

(***************************************************************************)
(* C17: each policy keeps its own head position across chunks.  For the    *)
(* first chunk all three policies start from the same configured initial   *)
(* position; for every later chunk the starting position of a policy       *)
(* (firstComeStart, shortestStart, elevatorStart) equals the last element  *)
(* of that policy's own ordering of the previous chunk; running one policy *)
(* never changes another policy's start or tally.                          *)
(***************************************************************************)
\* the start a policy is to take when it is entered: `own` is its start
\* variable, `policy` its report, which still shows the previous chunk
StartOnEntry(own, policy) ==
    /\ currentStart' = own
    /\ own = IF calls = 1 THEN Configured
             ELSE reported[policy].list[Len(reported[policy].list)]

FirstComeState == <<firstComeStart, firstComeTally>>
ShortestState == <<shortestStart, shortestTally>>
ElevatorState == <<elevatorStart, elevatorTally>>

C17_OwnHeadPerPolicy ==
    [][/\ (pc = "fcfs" /\ pc' = "stats_fcfs")
            => /\ StartOnEntry(firstComeStart, "fcfs")
               /\ UNCHANGED <<ShortestState, ElevatorState>>
       /\ (pc = "sstf" /\ pc' = "sstf_loop")
            => StartOnEntry(shortestStart, "sstf")
       /\ pc \in {"sstf", "sstf_loop"}
            => UNCHANGED <<FirstComeState, ElevatorState>>
       /\ (pc = "scan" /\ pc' = "scan_loop")
            => StartOnEntry(elevatorStart, "scan")
       /\ pc \in {"scan", "scan_loop"}
            => UNCHANGED <<FirstComeState, ShortestState>>]_vars

\* the second chunk has been run from three different head positions
C17_Witness ==
    /\ pc = "chunk_advance"
    /\ calls = 2
    /\ reported.fcfs.start # reported.sstf.start
    /\ reported.sstf.start # reported.scan.start
    /\ reported.fcfs.start # reported.scan.start
    /\ reported.scan.start # Configured

(***************************************************************************)
(* C19: chunked processing never writes to the caller's request list.  No  *)
(* step of process, processInChunks or the schedulers changes seeks.list   *)
(* (all reordering happens in the local buffer), so after processInChunks  *)
(* returns the list holds the values that were read, at the same indices,  *)
(* and the final "Conclusion" count, mean and standard deviation are those *)
(* of the raw arrival-order values of the whole run.                       *)
(***************************************************************************)
\* the requests as they were read from the input
RawRequests == IntegersOf(stream)

C19_ListNeverWritten ==
    /\ [][seeks' = seeks]_vars
    /\ [](pc \in {"conclusion", "done"} => seeks = RawRequests)
    /\ [](pc = "done" => overview = Overview(RawRequests))

\* a run of seven chunks has ended; the schedulers reordered the last chunk
\* in the buffer
C19_Witness ==
    /\ pc = "done"
    /\ seeks = Scattered(125)
    /\ calls = 7
    /\ Chunk # arrival
    /\ overview.count = 125

=============================================================================
